---------------------------- MODULE Spec2Model ----------------------------
(***************************************************************************)
(* Model of the trivia API (backend/flaskr/__init__.py): a Flask           *)
(* application whose handlers read and write two tables, questions and     *)
(* categories.  Every handler is an operator from the store and the        *)
(* request to the response (and the new store); the actions apply the      *)
(* handlers to requests drawn from bounded sets.  A handler that reads the *)
(* store, and then reads or writes it again, runs in one step per access   *)
(* on a worker thread, so that other requests can run in between.          *)
(***************************************************************************)
EXTENDS Integers, Sequences, FiniteSets, TLC

VARIABLES
    questions,        \* table questions: id -> row
    categories,       \* table categories: id -> type
    question_id_seq,  \* next value of the id sequence of table questions
    resp,             \* the response being returned to the client, or NoResp
    workers           \* listings, DELETE and quiz requests in flight, one per
                      \* worker thread

vars == <<questions, categories, question_id_seq, resp, workers>>

-----------------------------------------------------------------------------
(* Bounds of the model *)

MaxQuestions == 3        \* ids the sequence hands out under Spec
MaxQuizQuestions == 6    \* ids the sequence hands out under SpecQuiz
MaxPageQuestions == 21   \* ids the sequence hands out under SpecPage
MaxConcQuestions == 2    \* ids the sequence hands out under SpecConc
MaxCategory == 2         \* categories 1..MaxCategory exist
MaxPage == 4             \* pages 0..MaxPage are requested

(* Program constants *)

QUESTIONS_PER_PAGE == 10
QuizCap == 5

-----------------------------------------------------------------------------
(* Python / JSON values, tagged with their type *)

None == [t |-> "NoneType"]
PyInt(n) == [t |-> "int", v |-> n]
PyStr(s) == [t |-> "str", v |-> s]
PyList(s) == [t |-> "list", v |-> s]
PyDict(f) == [t |-> "dict", v |-> f]

\* dict.get(key, None)
Get(d, key) == IF key \in DOMAIN d.v THEN d.v[key] ELSE None

Min(a, b) == IF a < b THEN a ELSE b

\* the elements of a finite set of integers in increasing order
RECURSIVE Sorted(_)
Sorted(S) ==
    IF S = {} THEN <<>>
    ELSE LET m == CHOOSE x \in S : \A y \in S : x <= y
         IN  <<m>> \o Sorted(S \ {m})

Click == <<"c", "l", "i", "c", "k">>
AllText == <<"a", "l", "l">>
QuestionText == <<"A", "b">>
AnswerText == <<"x">>

NoResp == [op |-> "none"]

Workers == 1..2

-----------------------------------------------------------------------------
(* The store (models.py, SQLAlchemy over PostgreSQL) *)

Columns == {"question", "answer", "category_id", "difficulty"}

\* Question.format(): the row with its id
Question_format(qs, id) ==
    [id |-> id,
     question |-> qs[id].question,
     answer |-> qs[id].answer,
     category_id |-> qs[id].category_id,
     difficulty |-> qs[id].difficulty]

\* Category.format()
Category_format(id) == [id |-> id, type |-> categories[id]]

\* the store rejects a row with a null column or a category_id that
\* references no category
InsertRejected(row) ==
    \/ \E c \in Columns : row[c] = None
    \/ row.category_id.t # "int"
    \/ row.category_id.v \notin DOMAIN categories

\* Question.insert(): the row gets the next id of the sequence
Question_insert(qs, seq, row) ==
    IF InsertRejected(row)
    THEN [ok |-> FALSE, questions |-> qs]
    ELSE [ok |-> TRUE,
          questions |-> [i \in DOMAIN qs \cup {seq} |->
                            IF i = seq THEN row ELSE qs[i]]]

\* Question.delete(): removes the row with this id, if it is still there
Question_delete(qs, id) == [i \in DOMAIN qs \ {id} |-> qs[i]]

\* db.session.query(Question).filter(Question.id == id).first()
QuestionById(qs, id) ==
    IF id \in DOMAIN qs THEN [t |-> "Question", v |-> id] ELSE None

\* category.questions: the rows that reference the category
CategoryQuestions(qs, category_id) ==
    {i \in DOMAIN qs : qs[i].category_id = PyInt(category_id)}

UpperCase == <<"A", "B", "C", "D", "E", "F", "G", "H", "I", "J", "K", "L", "M",
               "N", "O", "P", "Q", "R", "S", "T", "U", "V", "W", "X", "Y", "Z">>
LowerCase == <<"a", "b", "c", "d", "e", "f", "g", "h", "i", "j", "k", "l", "m",
               "n", "o", "p", "q", "r", "s", "t", "u", "v", "w", "x", "y", "z">>

\* ILIKE compares without regard to case: every capital is folded
to_lower(c) ==
    IF \E i \in 1..Len(UpperCase) : UpperCase[i] = c
    THEN LowerCase[CHOOSE i \in 1..Len(UpperCase) : UpperCase[i] = c]
    ELSE c

Lower(s) == [i \in 1..Len(s) |-> to_lower(s[i])]

\* text LIKE pattern on folded characters: % stands for any run of
\* characters, _ for any one character, and a backslash makes the
\* character after it stand for itself
RECURSIVE like(_, _)
like(text, pattern) ==
    IF pattern = <<>> THEN text = <<>>
    ELSE IF pattern[1] = "%"
    THEN \E k \in 0..Len(text) :
            like(SubSeq(text, k + 1, Len(text)), Tail(pattern))
    ELSE IF pattern[1] = "_"
    THEN text # <<>> /\ like(Tail(text), Tail(pattern))
    ELSE IF pattern[1] = "\\" /\ Len(pattern) > 1
    THEN /\ text # <<>>
         /\ text[1] = pattern[2]
         /\ like(Tail(text), Tail(Tail(pattern)))
    ELSE /\ text # <<>>
         /\ text[1] = pattern[1]
         /\ like(Tail(text), Tail(pattern))

\* Question.question.ilike("%" + search_term + "%"): the term is part of
\* the pattern, so a % or _ in it is a wildcard
ilike(text, term) == like(Lower(text), Lower(<<"%">> \o term \o <<"%">>))

\* query.paginate(page, per_page, False), first statement: the rows of the
\* page, a page below 1 read as page 1
paginate_items(qs, page, per_page) ==
    LET p == IF page < 1 THEN 1 ELSE page
        ids == Sorted(DOMAIN qs)
    IN  SubSeq(ids, (p - 1) * per_page + 1, Min(p * per_page, Len(ids)))

\* query.paginate, second statement, on the store qs as it is then: the
\* number of rows and of pages.  The library either counts the rows in
\* every call, or takes the number of rows read when the first page (a page
\* below 1 is the first page) came back short
paginate(items, qs, page, per_page) ==
    LET p == IF page < 1 THEN 1 ELSE page
        count == Cardinality(DOMAIN qs)
        totals == {count,
                   IF p = 1 /\ Len(items) < per_page THEN Len(items) ELSE count}
    IN  {[items |-> items,
          total |-> total,
          pages |-> (total + per_page - 1) \div per_page] : total \in totals}

-----------------------------------------------------------------------------
(* Error handlers *)

\* the message is error.description, the text of werkzeug's BadRequest
get_400_error ==
    [status |-> 400,
     body |-> [success |-> FALSE, status |-> 400,
               message |-> "The browser (or proxy) sent a request that this server could not understand."]]

\* the message is error.description, the text of werkzeug's NotFound
get_404_error ==
    [status |-> 404,
     body |-> [success |-> FALSE, status |-> 404,
               message |-> "The requested URL was not found on the server. If you entered the URL manually please check your spelling and try again."]]

get_422_error ==
    [status |-> 422,
     body |-> [success |-> FALSE, status |-> 422,
               message |-> "The json that was sent did not include a proper field. Please refer to documentation."]]

\* error is what the framework passes: an InternalServerError, whose
\* description is the message, or the exception itself, which has no
\* description, so that line 249 raises and the answer is a 500 without a
\* JSON body
get_500_error(error) ==
    IF error = "InternalServerError"
    THEN [status |-> 500,
          body |-> [success |-> FALSE, status |-> 500,
                    message |-> "The server encountered an internal error and was unable to complete your request. Either the server is overloaded or there is an error in the application."]]
    ELSE [status |-> 500, body |-> <<>>]

\* an exception no handler catches: Flask 1.1 wraps it in an
\* InternalServerError before it calls the 500 handler, Flask 1.0 passes the
\* exception as it is
handle_exception(e) == {get_500_error(error) : error \in {"InternalServerError", e}}

\* a method the route does not allow: no handler is registered for 405, so
\* the answer is the framework's page, which is HTML
method_not_allowed ==
    [status |-> 405, body |-> [html |-> "405 Method Not Allowed"]]

abort(code) ==
    CASE code = 400 -> get_400_error
      [] code = 404 -> get_404_error
      [] code = 422 -> get_422_error
      [] OTHER -> get_500_error("InternalServerError")

-----------------------------------------------------------------------------
(* GET handlers *)

category_list ==
    LET ids == Sorted(DOMAIN categories)
    IN  [k \in 1..Len(ids) |-> Category_format(ids[k])]

get_categories ==
    [status |-> 200,
     body |-> [categories |-> category_list, success |-> TRUE]]

\* request.args.get("page", default=1, type=int)
PageArg(arg) == IF arg.t = "int" THEN arg.v ELSE 1

\* lines 43-46, the rows statement: the questions of the page as they are
\* read, which line 46 formats
question_rows(qs, arg) ==
    LET ids == paginate_items(qs, PageArg(arg), QUESTIONS_PER_PAGE)
    IN  [k \in 1..Len(ids) |-> Question_format(qs, ids[k])]

\* the last page taken for a page out of range
get_questions_off_by_one(items, qs, arg) ==
    LET page == PageArg(arg)
    IN  {IF page >= pg.pages /\ page > 1
         THEN abort(404)
         ELSE [status |-> 200,
               body |-> [questions |-> pg.items,
                         categories |-> category_list,
                         current_category |-> None,
                         success |-> TRUE,
                         total_questions |-> pg.total]] :
            pg \in paginate(items, qs, page, QUESTIONS_PER_PAGE)}

\* lines 43-58 from the count statement on, for the rows items read before
\* and the store qs as it is when the rows are counted: the responses the
\* handler can give
get_questions(items, qs, arg) ==
    LET page == PageArg(arg)
    IN  {IF page > pg.pages /\ page > 1
         THEN abort(404)
         ELSE [status |-> 200,
               body |-> [questions |-> pg.items,
                         categories |-> category_list,
                         current_category |-> None,
                         success |-> TRUE,
                         total_questions |-> pg.total]] :
            pg \in paginate(items, qs, page, QUESTIONS_PER_PAGE)}

\* the category is not looked up
get_questions_by_category_unchecked(qs, category_id) ==
    LET ids == Sorted(CategoryQuestions(qs, category_id))
        questions_list == [k \in 1..Len(ids) |-> Question_format(qs, ids[k])]
    IN  [status |-> 200,
         body |-> [questions |-> questions_list,
                   total_questions |-> Len(questions_list),
                   current_category |-> category_id,
                   success |-> TRUE]]

get_questions_by_category(qs, category_id) ==
    IF category_id \notin DOMAIN categories
    THEN [status |-> 404,
          body |-> [category_id |-> category_id,
                    success |-> FALSE,
                    status |-> 404,
                    message |-> "The category specified in the URL doesn't exist. Please resubmit with a correct category id."]]
    ELSE LET ids == Sorted(CategoryQuestions(qs, category_id))
             questions_list == [k \in 1..Len(ids) |-> Question_format(qs, ids[k])]
         IN  [status |-> 200,
              body |-> [questions |-> questions_list,
                        total_questions |-> Len(questions_list),
                        current_category |-> category_id,
                        success |-> TRUE]]

-----------------------------------------------------------------------------
(* DELETE /questions/<question_id> *)

delete_not_found(question_id) ==
    [status |-> 404,
     body |-> [question_id |-> question_id,
               success |-> FALSE,
               status |-> 404,
               message |-> "The question specified in the URL doesn't exist. Please resubmit with a correct question id"]]

\* the message is the text of e.orig, the error of the database driver
delete_store_error(question_id) ==
    [status |-> 422,
     body |-> [question_id |-> question_id,
               success |-> FALSE,
               status |-> 422,
               message |-> "store error"]]

\* app.response_class(status=204): no body
delete_no_content == [status |-> 204, body |-> <<>>]

\* the row is looked up but never deleted
delete_question_keeps_row(qs, question_id, question) ==
    IF question = None
    THEN {[resp |-> delete_not_found(question_id), questions |-> qs]}
    ELSE {[resp |-> delete_no_content, questions |-> qs]}

\* lines 93-108, for the question the lookup of lines 90-91 returned and
\* the store qs as it is when Question.delete runs: the responses the
\* handler can give, each with the store it leaves.  When another request
\* has removed the row since the lookup, the store deletes nothing and
\* either raises no error (204), an error of the driver (422), or an error
\* without orig, on which line 106 raises AttributeError (500)
delete_question(qs, question_id, question) ==
    IF question = None
    THEN {[resp |-> delete_not_found(question_id), questions |-> qs]}
    ELSE IF question_id \in DOMAIN qs
    THEN {[resp |-> delete_no_content,
           questions |-> Question_delete(qs, question_id)]}
    ELSE {[resp |-> r, questions |-> qs] :
             r \in {delete_no_content, delete_store_error(question_id)}
                      \cup handle_exception("AttributeError")}

-----------------------------------------------------------------------------
(* POST /questions *)

\* the store's error is swallowed
post_new_question_ignores_error(qs, seq, body) ==
    LET new_question == [question |-> Get(body, "question"),
                         answer |-> Get(body, "answer"),
                         category_id |-> Get(body, "category_id"),
                         difficulty |-> Get(body, "difficulty")]
        ins == Question_insert(qs, seq, new_question)
    IN  [resp |-> [status |-> 201,
                   body |-> [question_input |-> body,
                             success |-> TRUE,
                             status |-> 201,
                             message |-> "The question was added to the database"]],
         questions |-> ins.questions]

post_new_question(qs, seq, body) ==
    LET new_question == [question |-> Get(body, "question"),
                         answer |-> Get(body, "answer"),
                         category_id |-> Get(body, "category_id"),
                         difficulty |-> Get(body, "difficulty")]
        ins == Question_insert(qs, seq, new_question)
    IN  IF ~ins.ok
        THEN [resp |-> [status |-> 422,
                        body |-> [question_input |-> body,
                                  success |-> FALSE,
                                  status |-> 422,
                                  message |-> "store error"]],
              questions |-> ins.questions]
        ELSE [resp |-> [status |-> 201,
                        body |-> [question_input |-> body,
                                  success |-> TRUE,
                                  status |-> 201,
                                  message |-> "The question was added to the database"]],
              questions |-> ins.questions]

-----------------------------------------------------------------------------
(* POST /questions/search *)

\* the filter of lines 148-149: "%" + search_term + "%" raises TypeError
\* for a term that is not a string, and no handler catches it
search_filter(qs, search_term) ==
    IF search_term.t # "str"
    THEN handle_exception("TypeError")
    ELSE LET ids == Sorted({i \in DOMAIN qs :
                               ilike(qs[i].question.v, search_term.v)})
             question_list == [k \in 1..Len(ids) |-> Question_format(qs, ids[k])]
         IN  {[status |-> 200,
               body |-> [questions |-> question_list,
                         total_questions |-> Len(question_list),
                         current_category |-> None,
                         status |-> 200]]}

\* the set of responses the handler can give; line 143 calls .get on what
\* get_json() returns, which is None for a request without a JSON body
search_questions(qs, body) ==
    IF body.t # "dict"
    THEN handle_exception("AttributeError")
    ELSE LET search_term == Get(body, "search_term")
         IN  IF search_term = None
             THEN {abort(400)}
             ELSE search_filter(qs, search_term)

-----------------------------------------------------------------------------
(* POST /quizzes *)

\* the seen ids are not filtered out
filtered_ids_keeps_seen(ids, previous_questions) == ids

\* [i.id for i in ids if i.id not in previous_questions]
filtered_ids(ids, previous_questions) ==
    {i \in ids : i \notin previous_questions.v}

\* the pool size without the cap
questions_per_play_uncapped(ids) == Cardinality(ids)

\* min(5, len(ids))
questions_per_play(ids) == Min(QuizCap, Cardinality(ids))

\* the handler returns the response r
Answer(r) ==
    [pc |-> "done", question_id |-> 0, questions_per_play |-> 0, resp |-> r]

\* lines 199-207 over the pool ids: the end of the quiz, or one id that
\* choice() can return, whose row is still to be fetched
quiz_select(ids, previous_questions) ==
    LET filtered == filtered_ids(ids, previous_questions)
    IN  IF Cardinality(filtered) = 0
        THEN {Answer([status |-> 200,
                      body |-> [question |-> None,
                                questions_per_play |-> questions_per_play(ids),
                                success |-> TRUE,
                                status |-> 200]])}
        ELSE {[pc |-> "fetch",
               question_id |-> question_id,
               questions_per_play |-> questions_per_play(ids),
               resp |-> NoResp] : question_id \in filtered}

\* the category id is not checked against the store
quiz_category_scope_unchecked(qs, quiz_category_type, previous_questions) ==
    IF quiz_category_type.t # "dict"
    THEN {Answer(abort(422))}
    ELSE LET quiz_category_id == Get(quiz_category_type, "id")
         IN  IF quiz_category_id = None
             THEN {Answer(abort(422))}
             ELSE IF quiz_category_id.t # "int"
             THEN {Answer(abort(422))}
             ELSE quiz_select({i \in DOMAIN qs :
                                  qs[i].category_id = quiz_category_id},
                              previous_questions)

\* the else branch of the scope test: the type names a category
quiz_category_scope(qs, quiz_category_type, previous_questions) ==
    IF quiz_category_type.t # "dict"
    THEN {Answer(abort(422))}
    ELSE LET quiz_category_id == Get(quiz_category_type, "id")
         IN  IF quiz_category_id = None
             THEN {Answer(abort(422))}
             ELSE IF quiz_category_id.t # "int"
             THEN {Answer(abort(422))}
             ELSE IF quiz_category_id.v \notin DOMAIN categories
             THEN {Answer(abort(422))}
             ELSE quiz_select({i \in DOMAIN qs :
                                  qs[i].category_id = quiz_category_id},
                              previous_questions)

\* lines 162-207: what the handler can have done when it has read the ids
\* of the pool: answered, or chosen a question (choice() is random)
play_quizzes(qs, body) ==
    LET previous_questions == Get(body, "previous_questions")
        quiz_category == Get(body, "quiz_category")
    IN  IF quiz_category.t # "dict"
        THEN {Answer(r) : r \in handle_exception("AttributeError")}
                             \* .get on a value that has none
        ELSE LET quiz_category_type == Get(quiz_category, "type")
             IN  IF previous_questions = None
                 THEN {Answer(abort(422))}
                 ELSE IF quiz_category_type = None
                 THEN {Answer(abort(422))}
                 ELSE IF quiz_category_type = PyStr(Click)
                 THEN quiz_select(DOMAIN qs, previous_questions)
                 ELSE quiz_category_scope(qs, quiz_category_type,
                                          previous_questions)

\* lines 208-214: the chosen row is fetched from the store qs as it is
\* now; Question.format of a row that is gone raises AttributeError
quiz_question(qs, question_id, per_play) ==
    IF QuestionById(qs, question_id) = None
    THEN handle_exception("AttributeError")
    ELSE {[status |-> 200,
           body |-> [question |-> Question_format(qs, question_id),
                     questions_per_play |-> per_play,
                     success |-> TRUE,
                     status |-> 200]]}

-----------------------------------------------------------------------------
(* Requests *)

ColumnValue(k, c) ==
    CASE k = "question" -> PyStr(QuestionText)
      [] k = "answer" -> PyStr(AnswerText)
      [] k = "category_id" -> PyInt(c)
      [] OTHER -> PyInt(1)

\* a JSON body for POST /questions with the keys K
QuestionBody(K, c) == PyDict([k \in K |-> ColumnValue(k, c)])

\* every subset of the four keys, category ids known and unknown
QuestionBodies ==
    {QuestionBody(K, c) : K \in SUBSET Columns, c \in 0..(MaxCategory + 1)}

\* complete bodies in the first and the last category
CompleteBodies == {QuestionBody(Columns, c) : c \in {1, MaxCategory}}

QuizTypes ==
    {PyStr(Click), PyStr(AllText), PyList({}), PyDict(<<>>),
     PyDict("id" :> PyStr(<<"1">>))}
        \cup {PyDict("id" :> PyInt(c)) : c \in 0..(MaxCategory + 1)}

QuizCategories ==
    {None, PyDict(<<>>)} \cup {PyDict("type" :> ty) : ty \in QuizTypes}

\* a JSON body for POST /quizzes; None stands for a key that is absent
QuizBody(p, c) ==
    PyDict([k \in {x \in {"previous_questions", "quiz_category"} :
                      \/ x = "previous_questions" /\ p # None
                      \/ x = "quiz_category" /\ c # None}
              |-> IF k = "previous_questions" THEN p ELSE c])

QuizBodies ==
    {QuizBody(p, c) :
        p \in {None} \cup {PyList(S) : S \in SUBSET (1..MaxQuestions)},
        c \in QuizCategories}

\* previous_questions = the first k ids; every scope that passes validation
LargeQuizBodies ==
    {QuizBody(PyList(1..k), PyDict("type" :> ty)) :
        k \in 0..MaxQuizQuestions,
        ty \in {PyStr(Click)} \cup {PyDict("id" :> PyInt(c)) : c \in {1, MaxCategory}}}

\* no JSON body, no term, a null term, a term that is a number, and terms
\* that are strings, with and without the wildcards of ILIKE
SearchTerms ==
    {<<>>, <<"a">>, <<"B">>, <<"b", "a">>, <<"_">>, <<"_", "_", "_">>, <<"%">>}

SearchBodies ==
    {None, PyDict(<<>>), PyDict("search_term" :> None),
     PyDict("search_term" :> PyInt(1))}
        \cup {PyDict("search_term" :> PyStr(term)) : term \in SearchTerms}

\* the first page and the page after it
ConcPageArgs == {None, PyInt(2)}

\* a quiz over all categories with nothing seen
ConcQuizBodies == {QuizBody(PyList({}), PyDict("type" :> PyStr(Click)))}

PageArgs == {None} \cup {PyInt(n) : n \in 0..MaxPage}

-----------------------------------------------------------------------------
(* State machine *)

CategoryTypes == <<"Animals", "Math", "Science", "Disney", "Sci-Fi">>

CategoryType(i) == IF i <= Len(CategoryTypes) THEN CategoryTypes[i] ELSE "Other"

\* a worker thread: where its handler stands (pc), the request (op, args),
\* the handler's local variables question, question_id,
\* questions_per_play and the rows of questions.items, and the response
\* once the handler has returned
IdleWorker ==
    [pc |-> "idle", op |-> "none", args |-> None, question |-> None,
     question_id |-> 0, questions_per_play |-> 0, items |-> <<>>,
     resp |-> NoResp]

Init ==
    /\ questions = <<>>
    /\ categories = [i \in 1..MaxCategory |-> CategoryType(i)]
    /\ question_id_seq = 1
    /\ resp = NoResp
    /\ workers = [w \in Workers |-> IdleWorker]

(* Handlers that access the store once: one step from request to response *)

Respond(op, args, r) ==
    /\ resp.op = "none"
    /\ resp' = [op |-> op, args |-> args, status |-> r.status, body |-> r.body]

GetCategories ==
    /\ Respond("get_categories", None, get_categories)
    /\ UNCHANGED <<questions, categories, question_id_seq, workers>>

GetQuestionsByCategory(category_id) ==
    /\ Respond("get_questions_by_category", category_id,
               get_questions_by_category(questions, category_id))
    /\ UNCHANGED <<questions, categories, question_id_seq, workers>>

\* the INSERT draws an id from the sequence whether or not it is accepted
PostNewQuestion(body, cap) ==
    LET r == post_new_question(questions, question_id_seq, body)
    IN  /\ question_id_seq <= cap
        /\ Respond("post_new_question", body, r.resp)
        /\ questions' = r.questions
        /\ question_id_seq' = question_id_seq + 1
        /\ UNCHANGED <<categories, workers>>

SearchQuestions(body) ==
    /\ \E r \in search_questions(questions, body) :
          Respond("search_questions", body, r)
    /\ UNCHANGED <<questions, categories, question_id_seq, workers>>

\* POST /categories, as in test_405_sent_not_allowed_method
MethodNotAllowed ==
    /\ Respond("method_not_allowed", None, method_not_allowed)
    /\ UNCHANGED <<questions, categories, question_id_seq, workers>>

\* the response leaves the server
Deliver ==
    /\ resp.op # "none"
    /\ resp' = NoResp
    /\ UNCHANGED <<questions, categories, question_id_seq, workers>>

(* GET /questions on a worker: paginate reads the rows of the page and     *)
(* counts the rows in two statements                                       *)

\* lines 40-45, the rows statement
GetQuestionsRows(w, arg) ==
    /\ workers[w].pc = "idle"
    /\ workers' = [workers EXCEPT ![w] =
                      [IdleWorker EXCEPT !.pc = "count",
                                         !.op = "get_questions",
                                         !.args = arg,
                                         !.items = question_rows(questions, arg)]]
    /\ UNCHANGED <<questions, categories, question_id_seq, resp>>

\* lines 43-58 from the count statement on
GetQuestionsCount(w) ==
    /\ workers[w].pc = "count"
    /\ \E r \in get_questions(workers[w].items, questions, workers[w].args) :
          workers' = [workers EXCEPT ![w] =
                         [@ EXCEPT !.pc = "done", !.resp = r]]
    /\ UNCHANGED <<questions, categories, question_id_seq, resp>>

(* DELETE /questions/<question_id> on a worker: the lookup and the delete   *)
(* are two accesses to the store                                           *)

DeleteReceive(w, question_id) ==
    /\ workers[w].pc = "idle"
    /\ workers' = [workers EXCEPT ![w] =
                      [IdleWorker EXCEPT !.pc = "lookup",
                                         !.op = "delete_question",
                                         !.args = question_id]]
    /\ UNCHANGED <<questions, categories, question_id_seq, resp>>

\* lines 90-99: the query, and the 404 when it finds nothing
DeleteLookup(w) ==
    LET question_id == workers[w].args
        question == QuestionById(questions, question_id)
    IN  /\ workers[w].pc = "lookup"
        /\ IF question = None
           THEN \E o \in delete_question(questions, question_id, question) :
                   /\ workers' = [workers EXCEPT ![w] =
                                     [@ EXCEPT !.pc = "done", !.resp = o.resp]]
                   /\ questions' = o.questions
           ELSE /\ workers' = [workers EXCEPT ![w] =
                                  [@ EXCEPT !.pc = "delete",
                                            !.question = question]]
                /\ questions' = questions
        /\ UNCHANGED <<categories, question_id_seq, resp>>

\* lines 100-108: Question.delete and the response
DeleteCommit(w) ==
    /\ workers[w].pc = "delete"
    /\ \E o \in delete_question(questions, workers[w].args, workers[w].question) :
          /\ questions' = o.questions
          /\ workers' = [workers EXCEPT ![w] =
                            [@ EXCEPT !.pc = "done", !.resp = o.resp]]
    /\ UNCHANGED <<categories, question_id_seq, resp>>

(* POST /quizzes on a worker: the query for the ids of the pool and the     *)
(* fetch of the chosen row are two accesses to the store                   *)

\* lines 162-207
PlayQuizzesSelect(w, body) ==
    /\ workers[w].pc = "idle"
    /\ \E o \in play_quizzes(questions, body) :
          workers' = [workers EXCEPT ![w] =
                         [IdleWorker EXCEPT !.pc = o.pc,
                                            !.op = "play_quizzes",
                                            !.args = body,
                                            !.question_id = o.question_id,
                                            !.questions_per_play = o.questions_per_play,
                                            !.resp = o.resp]]
    /\ UNCHANGED <<questions, categories, question_id_seq, resp>>

\* lines 208-214
PlayQuizzesFetch(w) ==
    /\ workers[w].pc = "fetch"
    /\ \E r \in quiz_question(questions, workers[w].question_id,
                              workers[w].questions_per_play) :
          workers' = [workers EXCEPT ![w] =
                         [@ EXCEPT !.pc = "done", !.resp = r]]
    /\ UNCHANGED <<questions, categories, question_id_seq, resp>>

\* the response of a worker leaves the server
DeliverWorker(w) ==
    /\ workers[w].pc = "done"
    /\ workers' = [workers EXCEPT ![w] = IdleWorker]
    /\ UNCHANGED <<questions, categories, question_id_seq, resp>>

(* Requests served one at a time: a request arrives when no other request  *)
(* is being handled and no response is waiting                             *)

Quiet ==
    /\ resp.op = "none"
    /\ \A w \in Workers : workers[w].pc = "idle"

Next ==
    \/ Quiet /\ GetCategories
    \/ Quiet /\ MethodNotAllowed
    \/ Quiet /\ \E w \in Workers, arg \in PageArgs : GetQuestionsRows(w, arg)
    \/ \E w \in Workers : GetQuestionsCount(w)
    \/ Quiet /\ \E category_id \in 0..(MaxCategory + 1) :
                   GetQuestionsByCategory(category_id)
    \/ Quiet /\ \E body \in QuestionBodies : PostNewQuestion(body, MaxQuestions)
    \/ Quiet /\ \E body \in SearchBodies : SearchQuestions(body)
    \/ Quiet /\ \E w \in Workers, question_id \in 0..(MaxQuestions + 1) :
                   DeleteReceive(w, question_id)
    \/ \E w \in Workers : DeleteLookup(w)
    \/ \E w \in Workers : DeleteCommit(w)
    \/ Quiet /\ \E w \in Workers, body \in QuizBodies : PlayQuizzesSelect(w, body)
    \/ \E w \in Workers : PlayQuizzesFetch(w)
    \/ Deliver
    \/ \E w \in Workers : DeliverWorker(w)

Spec == Init /\ [][Next]_vars

(* Quizzes over pools larger than QuizCap, requests served one at a time *)

NextQuiz ==
    \/ Quiet /\ \E body \in CompleteBodies : PostNewQuestion(body, MaxQuizQuestions)
    \/ Quiet /\ \E w \in Workers, question_id \in 1..MaxQuizQuestions :
                   DeleteReceive(w, question_id)
    \/ \E w \in Workers : DeleteLookup(w)
    \/ \E w \in Workers : DeleteCommit(w)
    \/ Quiet /\ \E w \in Workers, body \in LargeQuizBodies :
                   PlayQuizzesSelect(w, body)
    \/ \E w \in Workers : PlayQuizzesFetch(w)
    \/ Deliver
    \/ \E w \in Workers : DeliverWorker(w)

SpecQuiz == Init /\ [][NextQuiz]_vars

(* Listings of more than one page, requests served one at a time *)

NextPage ==
    \/ Quiet /\ PostNewQuestion(QuestionBody(Columns, 1), MaxPageQuestions)
    \/ Quiet /\ \E w \in Workers, arg \in PageArgs : GetQuestionsRows(w, arg)
    \/ \E w \in Workers : GetQuestionsCount(w)
    \/ Deliver
    \/ \E w \in Workers : DeliverWorker(w)

SpecPage == Init /\ [][NextPage]_vars

(* Listings of more than one page while questions are added: the two       *)
(* statements of a listing interleave with the other requests              *)

NextPageConc ==
    \/ PostNewQuestion(QuestionBody(Columns, 1), MaxPageQuestions)
    \/ \E w \in Workers, arg \in PageArgs : GetQuestionsRows(w, arg)
    \/ \E w \in Workers : GetQuestionsCount(w)
    \/ Deliver
    \/ \E w \in Workers : DeliverWorker(w)

SpecPageConc == Init /\ [][NextPageConc]_vars

(* Requests served concurrently: the steps of the workers interleave in    *)
(* any order, with each other and with the other requests                  *)

NextConc ==
    \/ PostNewQuestion(QuestionBody(Columns, 1), MaxConcQuestions)
    \/ Deliver
    \/ \E w \in Workers, question_id \in 1..MaxConcQuestions :
          DeleteReceive(w, question_id)
    \/ \E w \in Workers : DeleteLookup(w)
    \/ \E w \in Workers : DeleteCommit(w)
    \/ \E w \in Workers, body \in ConcQuizBodies : PlayQuizzesSelect(w, body)
    \/ \E w \in Workers, arg \in ConcPageArgs : GetQuestionsRows(w, arg)
    \/ \E w \in Workers : GetQuestionsCount(w)
    \/ \E w \in Workers : PlayQuizzesFetch(w)
    \/ \E w \in Workers : DeliverWorker(w)

SpecConc == Init /\ [][NextConc]_vars

-----------------------------------------------------------------------------
(* Responses of the workers *)

Done(w) == workers[w].pc = "done"

\* the response of a worker whose handler has returned
WorkerResp(w) ==
    [op |-> workers[w].op, args |-> workers[w].args,
     status |-> workers[w].resp.status, body |-> workers[w].resp.body]

-----------------------------------------------------------------------------
(* Properties of POST /quizzes *)

QuizDone(w) == Done(w) /\ workers[w].op = "play_quizzes"

HasKey(d, key) == d.t = "dict" /\ key \in DOMAIN d.v

\* the request names its seen ids and a quiz_category with a type
QuizPrev(body) == body.v["previous_questions"].v
QuizType(body) == body.v["quiz_category"].v["type"]

TypeIsClick(ty) == ty.t = "str" /\ ty.v = Click
TypeIsCategory(ty) ==
    /\ ty.t = "dict" /\ "id" \in DOMAIN ty.v
    /\ ty.v["id"].t = "int" /\ ty.v["id"].v \in DOMAIN categories

ValidQuizRequest(body) ==
    /\ HasKey(body, "previous_questions")
    /\ body.v["previous_questions"].t = "list"
    /\ HasKey(body, "quiz_category")
    /\ HasKey(body.v["quiz_category"], "type")
    /\ TypeIsClick(QuizType(body)) \/ TypeIsCategory(QuizType(body))

\* the ids of the questions in the scope of a valid request
QuizPool(body) ==
    IF TypeIsClick(QuizType(body))
    THEN DOMAIN questions
    ELSE {i \in DOMAIN questions :
             questions[i].category_id.v = QuizType(body).v["id"].v}

UnseenQuestionOrNull(r) ==
    ValidQuizRequest(r.args) =>
        LET remaining == QuizPool(r.args) \ QuizPrev(r.args)
        IN  /\ r.status = 200
            /\ IF remaining # {}
               THEN /\ r.body.question # None
                    /\ r.body.question.id \in remaining
                    /\ r.body.question = Question_format(questions, r.body.question.id)
               ELSE r.body.question = None

\* C1: a valid quiz request served on a store that no other request changes
\* gets an unseen question of its pool when there is one, and otherwise 200
\* with question = null
C1_UnseenQuestionOrNull ==
    \A w \in Workers : QuizDone(w) => UnseenQuestionOrNull(WorkerResp(w))

\* a question is returned although part of the pool has been seen
C1_Witness ==
    \E w \in Workers :
        /\ QuizDone(w) /\ ValidQuizRequest(workers[w].args)
        /\ workers[w].resp.status = 200
        /\ workers[w].resp.body.question # None
        /\ QuizPool(workers[w].args) \cap QuizPrev(workers[w].args) # {}
        /\ QuizPool(workers[w].args) # DOMAIN questions

\* the questions_per_play of an outcome of lines 162-207
PerPlayOf(o) ==
    IF o.pc = "done" THEN o.resp.body.questions_per_play ELSE o.questions_per_play

QuestionsPerPlay(r) ==
    r.status = 200 =>
        LET pool_size == Cardinality(QuizPool(r.args))
            expected == IF pool_size < 5 THEN pool_size ELSE 5
        IN  /\ r.body.questions_per_play = expected
            /\ \A k \in 0..MaxQuizQuestions :
                  \A o \in play_quizzes(questions,
                                        QuizBody(PyList(1..k),
                                                 r.args.v["quiz_category"])) :
                     PerPlayOf(o) = expected

\* C2: every successful quiz response carries questions_per_play =
\* min(5, size of the pool), whatever previous_questions holds
C2_QuestionsPerPlay ==
    \A w \in Workers : QuizDone(w) => QuestionsPerPlay(WorkerResp(w))

\* the pool is larger than five and every question of it has been seen
C2_Witness ==
    \E w \in Workers :
        /\ QuizDone(w) /\ workers[w].resp.status = 200
        /\ Cardinality(QuizPool(workers[w].args)) > 5
        /\ workers[w].resp.body.question = None
        /\ workers[w].resp.body.questions_per_play = 5

MissingFieldIs422(r) ==
    (\/ ~HasKey(r.args, "previous_questions")
     \/ ~HasKey(r.args, "quiz_category")
     \/ ~HasKey(r.args.v["quiz_category"], "type")
     \/ /\ ~TypeIsClick(QuizType(r.args))
        /\ QuizType(r.args).t # "dict")
        => r.status = 422

\* C5 as claimed: a body without previous_questions or without
\* quiz_category.type, or with a type that is neither "click" nor an
\* object, is answered 422
C5_MissingFieldIs422 ==
    \A w \in Workers : QuizDone(w) => MissingFieldIs422(WorkerResp(w))

QuizTypeIsObject(body) ==
    /\ HasKey(body, "quiz_category")
    /\ HasKey(body.v["quiz_category"], "type")
    /\ QuizType(body).t = "dict"

BadCategoryId(ty) ==
    \/ "id" \notin DOMAIN ty.v
    \/ ty.v["id"].t # "int"
    \/ ty.v["id"].v \notin DOMAIN categories

\* C6 as claimed: with an object as type, a missing, non-integer or unknown
\* id always yields 422, and the id of an existing category never does
C6_Original ==
    \A w \in Workers :
        (QuizDone(w) /\ QuizTypeIsObject(workers[w].args)) =>
            IF BadCategoryId(QuizType(workers[w].args))
            THEN workers[w].resp.status = 422
            ELSE workers[w].resp.status # 422

\* C6 amended: with an object as type, a missing, non-integer or unknown id
\* always yields 422; the id of an existing category yields 422 exactly
\* when previous_questions is missing
C6_CategoryIdValidation ==
    \A w \in Workers :
        (QuizDone(w) /\ QuizTypeIsObject(workers[w].args)) =>
            IF BadCategoryId(QuizType(workers[w].args))
            THEN workers[w].resp.status = 422
            ELSE (workers[w].resp.status = 422)
                    <=> ~HasKey(workers[w].args, "previous_questions")

\* an unknown category id is refused although previous_questions is given
C6_Witness ==
    \E w \in Workers :
        /\ QuizDone(w) /\ QuizTypeIsObject(workers[w].args)
        /\ HasKey(workers[w].args, "previous_questions")
        /\ "id" \in DOMAIN QuizType(workers[w].args).v
        /\ QuizType(workers[w].args).v["id"].t = "int"
        /\ QuizType(workers[w].args).v["id"].v \notin DOMAIN categories
        /\ questions # <<>>
        /\ workers[w].resp.status = 422

-----------------------------------------------------------------------------
(* Properties of DELETE /questions/<id> *)

DeleteDone(w) == Done(w) /\ workers[w].op = "delete_question"

Without(qs, id) == [i \in DOMAIN qs \ {id} |-> qs[i]]

\* the worker runs Question.delete and returns
CommitStep(w) == workers[w].pc = "delete" /\ workers'[w].pc = "done"

\* the worker runs the lookup
LookupStep(w) == workers[w].pc = "lookup" /\ workers'[w].pc # "lookup"

\* the id was handed out by the sequence and is not stored.  Under SpecQuiz
\* every insert is accepted and only a DELETE answered 204 removes a row,
\* so such an id was stored and has been deleted by an earlier request
DeletedBefore(id) ==
    id \in 1..(question_id_seq - 1) /\ id \notin DOMAIN questions

\* C3: DELETE of a stored id answers 204 with no body and removes exactly
\* that question; the next DELETE of that id answers 404 and leaves the
\* store as it is
C3_DeleteTwice ==
    [][\A w \in Workers :
          /\ (CommitStep(w) /\ workers[w].args \in DOMAIN questions) =>
                LET id == workers[w].args
                    second == delete_question(questions', id,
                                              QuestionById(questions', id))
                IN  /\ workers'[w].resp.status = 204
                    /\ DOMAIN workers'[w].resp.body = {}
                    /\ questions' = Without(questions, id)
                    /\ DeletedBefore(id)'
                    /\ \A o \in second :
                          /\ o.resp.status = 404
                          /\ o.resp.body.success = FALSE
                          /\ o.questions = questions'
          /\ (LookupStep(w) /\ DeletedBefore(workers[w].args)) =>
                /\ workers'[w].pc = "done"
                /\ workers'[w].resp.status = 404
                /\ workers'[w].resp.body.success = FALSE
                /\ questions' = questions]_vars

\* the second DELETE of an id has been answered 404: the id was stored, an
\* earlier DELETE removed it, and other questions remain stored
C3_Witness ==
    \E w \in Workers :
        /\ DeleteDone(w)
        /\ workers[w].resp.status = 404
        /\ DeletedBefore(workers[w].args)
        /\ questions # <<>>

\* C4 as claimed: of two DELETE requests for the same id of which at least
\* one found the question, exactly one answers 204 and the other 404
C4_ExactlyOneDeleteSucceeds ==
    \A w1, w2 \in Workers :
        (/\ w1 # w2
         /\ DeleteDone(w1) /\ DeleteDone(w2)
         /\ workers[w1].args = workers[w2].args
         /\ workers[w1].question # None)
            => /\ workers[w1].resp.status = 204
               /\ workers[w2].resp.status = 404

-----------------------------------------------------------------------------
(* Properties of GET /questions *)

ListingDone(w) == Done(w) /\ workers[w].op = "get_questions"

\* ceil(T / 10)
PageCount(T) == CHOOSE n \in 0..T : n * 10 >= T /\ (n = 0 \/ (n - 1) * 10 < T)

Pagination(r) ==
    (r.args = None \/ r.args.v >= 1) =>
        LET N == IF r.args = None THEN 1 ELSE r.args.v
            T == Cardinality(DOMAIN questions)
        IN  /\ N = 1 =>
                /\ r.status = 200
                /\ r.body.total_questions = T
                /\ T = 0 => r.body.questions = <<>>
            /\ (N > 1 /\ N > PageCount(T)) => r.status = 404
            /\ (1 <= N /\ N <= PageCount(T)) =>
                /\ r.status = 200
                /\ Len(r.body.questions) <= 10
                /\ r.body.total_questions = T

\* C7: on a store of T questions that no other request changes, page 1
\* always succeeds with total_questions = T; a page above 1 and above
\* ceil(T/10) is 404; a page within 1..ceil(T/10) succeeds with at most 10
\* questions and total_questions = T
C7_Pagination ==
    \A w \in Workers : ListingDone(w) => Pagination(WorkerResp(w))

\* the second of two pages is listed
C7_Witness ==
    \E w \in Workers :
        /\ ListingDone(w)
        /\ workers[w].args # None /\ workers[w].args.v = 2
        /\ workers[w].resp.status = 200
        /\ Cardinality(DOMAIN questions) > 10
        /\ Len(workers[w].resp.body.questions) = Cardinality(DOMAIN questions) - 10

-----------------------------------------------------------------------------
(* Properties of POST /questions *)

CompleteAndValid(body) ==
    /\ DOMAIN body.v = Columns
    /\ body.v["category_id"].v \in DOMAIN categories

\* C8: a body with the four fields, all valid, is answered 201 with the
\* body echoed, and exactly one question with those values is added; a body
\* that lacks a field is answered 422 with the body echoed, and the stored
\* questions stay as they are
C8_CreateQuestion ==
    [][(resp'.op = "post_new_question" /\ resp.op = "none") =>
          LET body == resp'.args
          IN  /\ CompleteAndValid(body) =>
                  /\ resp'.status = 201
                  /\ resp'.body.success = TRUE
                  /\ resp'.body.question_input = body
                  /\ \E id \in DOMAIN questions' \ DOMAIN questions :
                        /\ DOMAIN questions' = DOMAIN questions \cup {id}
                        /\ \A c \in Columns : questions'[id][c] = body.v[c]
                  /\ \A i \in DOMAIN questions : questions'[i] = questions[i]
              /\ DOMAIN body.v # Columns =>
                  /\ resp'.status = 422
                  /\ resp'.body.success = FALSE
                  /\ resp'.body.question_input = body
                  /\ questions' = questions]_vars

\* a complete body was accepted and its question is stored
C8_Witness ==
    /\ resp.op = "post_new_question"
    /\ resp.status = 201
    /\ DOMAIN resp.args.v = Columns
    /\ (question_id_seq - 1) \in DOMAIN questions
    /\ questions[question_id_seq - 1].category_id = resp.args.v["category_id"]
    /\ Cardinality(DOMAIN questions) > 1

-----------------------------------------------------------------------------
(* Properties of every response *)

FailureEnvelope(r) ==
    /\ {"success", "status", "message"} \subseteq DOMAIN r.body
    /\ r.body.success = FALSE
    /\ r.body.status = r.status

Original(r) ==
    /\ "success" \in DOMAIN r.body
    /\ r.body.success \in BOOLEAN
    /\ r.status >= 400 => FailureEnvelope(r)

\* C9 as claimed: every response is JSON that carries a boolean success,
\* and every failure response carries status = the HTTP status and a message
C9_Original ==
    /\ resp.op # "none" => Original(resp)
    /\ \A w \in Workers : Done(w) => Original(WorkerResp(w))

-----------------------------------------------------------------------------
(* Properties of GET /categories/<id>/questions *)

\* C10: an unknown category is answered 404 with success = false and the
\* id echoed; an existing one is answered with exactly the stored questions
\* of that category, their count and the id as current_category
C10_QuestionsByCategory ==
    resp.op = "get_questions_by_category" =>
        LET id == resp.args
            stored == {i \in DOMAIN questions : questions[i].category_id.v = id}
            listed == {resp.body.questions[k] : k \in DOMAIN resp.body.questions}
        IN  IF id \notin DOMAIN categories
            THEN /\ resp.status = 404
                 /\ resp.body.success = FALSE
                 /\ resp.body.category_id = id
            ELSE /\ resp.status = 200
                 /\ resp.body.success = TRUE
                 /\ listed = {Question_format(questions, i) : i \in stored}
                 /\ Len(resp.body.questions) = Cardinality(stored)
                 /\ resp.body.total_questions = Cardinality(stored)
                 /\ resp.body.current_category = id

\* a category is listed that holds some of the stored questions, not all
C10_Witness ==
    /\ resp.op = "get_questions_by_category"
    /\ resp.status = 200
    /\ resp.body.total_questions > 0
    /\ resp.body.total_questions < Cardinality(DOMAIN questions)

-----------------------------------------------------------------------------
(* Properties of POST /questions/search *)

SearchStep == resp'.op = "search_questions" /\ resp.op = "none"

StoreUnchanged ==
    /\ questions' = questions
    /\ categories' = categories
    /\ question_id_seq' = question_id_seq

\* a missing or null term is answered 400, the same on every store
BadRequestWhateverStored ==
    /\ resp'.status = 400
    /\ resp'.body.success = FALSE
    /\ resp'.body.status = 400
    /\ search_questions(<<>>, resp'.args)
          = {[status |-> resp'.status, body |-> resp'.body]}

SearchSucceeds ==
    /\ resp'.status = 200
    /\ resp'.body.current_category = None

TermOf(body) == body.v["search_term"]

\* the request has no search_term, or a null one
TermIsNull(body) ==
    \/ body.t # "dict"
    \/ "search_term" \notin DOMAIN body.v
    \/ TermOf(body).t = "NoneType"

\* C11 as claimed: a search without search_term, or with a null one, is
\* answered 400 whatever is stored and leaves the store alone; a search with
\* any non-null search_term is answered 200 with current_category = null
C11_Original ==
    [][SearchStep =>
          /\ StoreUnchanged
          /\ IF TermIsNull(resp'.args)
             THEN BadRequestWhateverStored
             ELSE SearchSucceeds]_vars

=============================================================================
